---- MODULE Spec2Model ----
(***************************************************************************)
(* Model of the identity document manager (DIDService) and the capability  *)
(* token service (UcanService) of bio-did-seq.                             *)
(*                                                                         *)
(* Strings that the code splits on ':' (token strings, audience DIDs, the  *)
(* service DID, token ids) are modelled as the sequence of their ':'-free  *)
(* segments, so format!("{}:{}") is concatenation of segment sequences and *)
(* split(':') is the sequence itself.  Option<T> is a sequence of length   *)
(* 0 (None) or 1 (Some).  Instants are clock ticks; the DATETIME columns   *)
(* and unix timestamps keep whole seconds only.                            *)
(***************************************************************************)
EXTENDS Integers, Sequences, FiniteSets, TLC

VARIABLES
    now,            \* the wall clock, in ticks (Utc::now())
    ipfs,           \* Content Store: the set of blobs it holds
    did_documents,  \* rows of table did_documents
    ucan_tokens,    \* rows of table ucan_tokens
    pc,             \* per request: the await point it is suspended at
    loc,            \* per request: arguments and local variables
    ret,            \* the value the step just taken returned to a caller, if any
    results         \* per request: what its last call returned, until it steps again

vars == <<now, ipfs, did_documents, ucan_tokens, pc, loc, ret, results>>

-----------------------------------------------------------------------------
(* Bounds of the model *)

\* clock resolution: ticks per second
TicksPerSecond == 2
\* how many ticks past the start of a day the clock is followed
ClockBudget == 4
\* connections of the shared pool
PoolSize == 3

\* the request that runs alone, and the requests that can run side by side
Procs == {"p1"}
AllProcs == {"p1", "p2", "p3"}
\* the two requests of the update race
RaceProcs == {"p1", "p2"}
Users == {1, 2}
Uuids == {"u1", "u2"}

None == <<>>
Some(x) == <<x>>

-----------------------------------------------------------------------------
(* Time *)

\* Duration::hours(24)
ExpiryHours == 24
SecondsPerHour == 60 * 60
ExpiryTicks == ExpiryHours * SecondsPerHour * TicksPerSecond
\* the clock is followed for ClockBudget ticks from the start of a day
TimeOfDay(t) == IF t < ExpiryTicks THEN t ELSE t - ExpiryTicks - TicksPerSecond

\* format("%Y-%m-%d %H:%M:%S") and timestamp(): whole seconds, fraction dropped
FormatSeconds(t) == t \div TicksPerSecond

\* a read of Utc::now() whose value is used: successive reads return
\* successive instants
ClockRead == TimeOfDay(now) < ClockBudget /\ now' = now + 1

-----------------------------------------------------------------------------
(* models/did.rs *)

Contexts == <<"https://www.w3.org/ns/did/v1",
              "https://w3id.org/security/suites/ed25519-2020/v1",
              "https://w3id.org/biodata/v1">>

generate_did(uuid) == "did:bio:" \o uuid

DIDs == {generate_did(u) : u \in Uuids}

VerificationMethod(id, controller, key) ==
    [id |-> id, controller |-> controller,
     vm_type |-> "Ed25519VerificationKey2020",
     public_key_multibase |-> Some(key), public_key_jwk |-> None]

Service(id, type, endpoint, description) ==
    [id |-> id, service_type |-> type, service_endpoint |-> endpoint,
     description |-> description]

Metadata(title) ==
    [title |-> title, doi |-> None, dataverse_link |-> None]

create_default_did_document(did, controller, public_key, metadata, t) ==
    LET verification_method_id == did \o "#keys-1" IN
    [context |-> Contexts,
     id |-> did,
     also_known_as |-> None,
     controller |-> <<controller>>,
     verification_method |->
         <<VerificationMethod(verification_method_id, did, public_key)>>,
     authentication |-> <<verification_method_id>>,
     assertion_method |-> None,
     service |-> <<Service(did \o "#storage", "IPFSStorage",
                           "https://ipfs.bio-did-seq.example/api",
                           Some("IPFS storage for biological research data"))>>,
     created |-> t,
     updated |-> t,
     metadata |-> Some(metadata)]

\* the serialization that always skips metadata
Serialize_SkipsMetadata(doc) ==
    [k \in {"@context", "id", "alsoKnownAs", "controller",
            "verificationMethod", "authentication",
            "assertionMethod", "service", "created", "updated"} |->
        CASE k = "@context" -> doc.context
          [] k = "id" -> doc.id
          [] k = "alsoKnownAs" -> doc.also_known_as
          [] k = "controller" -> doc.controller
          [] k = "verificationMethod" -> doc.verification_method
          [] k = "authentication" -> doc.authentication
          [] k = "assertionMethod" -> doc.assertion_method
          [] k = "service" -> doc.service
          [] k = "created" -> doc.created
          [] OTHER -> doc.updated]

\* serde_json::to_string(&DIDDocument): a JSON object keyed by the serde names;
\* metadata is skipped when None
Serialize(doc) ==
    LET base == [k \in {"@context", "id", "alsoKnownAs", "controller",
                        "verificationMethod", "authentication",
                        "assertionMethod", "service", "created", "updated"} |->
                    CASE k = "@context" -> doc.context
                      [] k = "id" -> doc.id
                      [] k = "alsoKnownAs" -> doc.also_known_as
                      [] k = "controller" -> doc.controller
                      [] k = "verificationMethod" -> doc.verification_method
                      [] k = "authentication" -> doc.authentication
                      [] k = "assertionMethod" -> doc.assertion_method
                      [] k = "service" -> doc.service
                      [] k = "created" -> doc.created
                      [] OTHER -> doc.updated]
    IN  IF doc.metadata = None THEN base
        ELSE base @@ ("metadata" :> doc.metadata[1])

\* serde_json::from_str::<DIDDocument>: an absent Option field reads as None
Deserialize(json) ==
    [context |-> json["@context"],
     id |-> json["id"],
     also_known_as |-> json["alsoKnownAs"],
     controller |-> json["controller"],
     verification_method |-> json["verificationMethod"],
     authentication |-> json["authentication"],
     assertion_method |-> json["assertionMethod"],
     service |-> json["service"],
     created |-> json["created"],
     updated |-> json["updated"],
     metadata |-> IF "metadata" \in DOMAIN json THEN Some(json["metadata"])
                  ELSE None]

-----------------------------------------------------------------------------
(* Content Store (IPFSService): content-addressed put and get *)

CidOf(bytes) == <<"cid", bytes>>

add_content(store, bytes) == store \cup {bytes}

HasContent(store, cid) == \E b \in store : CidOf(b) = cid

get_content(store, cid) == CHOOSE b \in store : CidOf(b) = cid

-----------------------------------------------------------------------------
(* Requests the model draws its inputs from *)

CreationRequests ==
    {[controller |-> "did:bio:ctl1", public_key |-> "zPK1",
      service_endpoints |-> <<>>, metadata |-> Metadata("genome-1")]}

NoPatch ==
    [controller |-> None, add_verification_method |-> None,
     remove_verification_method |-> None, add_service |-> None,
     remove_service |-> None, update_metadata |-> None]

\* patches sent to update_did: the empty one, one that replaces controller and
\* metadata, one that removes the default key of either identity
UpdateRequests ==
    { NoPatch,
      [NoPatch EXCEPT !.controller = Some("did:bio:ctl2"),
                      !.update_metadata = Some(Metadata("genome-2"))],
      [NoPatch EXCEPT !.remove_verification_method =
                          Some(<<"did:bio:u1#keys-1", "did:bio:u2#keys-1">>)] }

\* a second key and a second service for the identity of FirstDocument
KeyA == VerificationMethod("did:bio:u1#keys-2", "did:bio:u1", "zPK2")
ServiceA == Service("did:bio:u1#index", "LinkedDomains",
                    "https://index.bio-did-seq.example", None)

\* what a patch can say about one list: nothing; an addition; a removal of the
\* entry created by default, of the added one or of one that is not there; an
\* addition together with the removal of what it adds
ListPatches(added, default_id) ==
    { <<None, None>>,
      <<Some(<<added>>), None>>,
      <<None, Some(<<default_id>>)>>,
      <<None, Some(<<added.id>>)>>,
      <<None, Some(<<"did:bio:u1#absent">>)>>,
      <<Some(<<added>>), Some(<<added.id>>)>>,
      <<Some(<<added>>), Some(<<default_id, "did:bio:u1#absent">>)>> }

\* patches of the keys alone, of the services alone, of controller and
\* metadata alone, and one naming every field
PatchRequests ==
    { [NoPatch EXCEPT !.add_verification_method = l[1],
                      !.remove_verification_method = l[2]] :
          l \in ListPatches(KeyA, "did:bio:u1#keys-1") }
    \cup
    { [NoPatch EXCEPT !.add_service = l[1], !.remove_service = l[2]] :
          l \in ListPatches(ServiceA, "did:bio:u1#storage") }
    \cup
    { [NoPatch EXCEPT !.controller = Some("did:bio:ctl2")],
      [NoPatch EXCEPT !.update_metadata = Some(Metadata("genome-2"))],
      [controller |-> Some("did:bio:ctl2"),
       add_verification_method |-> Some(<<KeyA>>),
       remove_verification_method |-> Some(<<"did:bio:u1#keys-1">>),
       add_service |-> Some(<<ServiceA>>),
       remove_service |-> Some(<<"did:bio:u1#storage">>),
       update_metadata |-> Some(Metadata("genome-2"))] }

Dois == {"doi:10.1/a"}

-----------------------------------------------------------------------------
(* Calls, their results, and the connection pool *)

NoCall == [op |-> "none"]
Idle == [call |-> NoCall, held |-> 0]
NoReturn == [proc |-> "none"]

Err(kind) == [status |-> "Err", error |-> kind]
Ok(value) == [status |-> "Ok", value |-> value]

\* to_string and add_content: the failures the code maps and passes on
StoreWriteErrors == {"SerializationError", "IPFSError"}

RECURSIVE SumHeld(_)
SumHeld(S) == IF S = {} THEN 0
              ELSE LET p == CHOOSE q \in S : TRUE
                   IN loc[p].held + SumHeld(S \ {p})

InUse == SumHeld(AllProcs)

\* db_pool.get_conn() completes only when the pool has a connection to hand out
ConnAvailable == InUse < PoolSize

\* the call of p returns val and its connections stay checked out
Return_KeepsConnections(p, call, val) ==
    /\ pc' = [pc EXCEPT ![p] = "idle"]
    /\ loc' = [loc EXCEPT ![p] = [call |-> NoCall, held |-> loc[p].held]]
    /\ ret' = [proc |-> p, call |-> call, val |-> val]
    /\ results' = [results EXCEPT ![p] = [proc |-> p, call |-> call, val |-> val]]

\* the call of p returns val; its connections drop back into the pool
Return(p, call, val) ==
    /\ pc' = [pc EXCEPT ![p] = "idle"]
    /\ loc' = [loc EXCEPT ![p] = Idle]
    /\ ret' = [proc |-> p, call |-> call, val |-> val]
    /\ results' = [results EXCEPT ![p] = [proc |-> p, call |-> call, val |-> val]]

\* the call of p goes on to await point at, with locals l
Goto(p, at, l) ==
    /\ pc' = [pc EXCEPT ![p] = at]
    /\ loc' = [loc EXCEPT ![p] = l]
    /\ ret' = NoReturn
    /\ results' = [results EXCEPT ![p] = NoReturn]

-----------------------------------------------------------------------------
(* services/did_service.rs: statements and in-memory steps *)

PointerRow(did, cid, user_id, created_at, updated_at) ==
    [did |-> did, cid |-> cid, user_id |-> user_id, dataverse_doi |-> None,
     created_at |-> created_at, updated_at |-> updated_at]

\* column did is UNIQUE: the INSERT is rejected when the did has a row
InsertAccepted(rows, did) == ~ \E r \in rows : r.did = did

\* INSERT INTO did_documents (did, cid, user_id, created_at, updated_at)
InsertPointer(rows, did, cid, user_id, created_at, updated_at) ==
    rows \cup {PointerRow(did, cid, user_id, created_at, updated_at)}

\* the ownership SELECT without its user_id condition
SelectAuthorized_AnyUser(rows, did_id, user_id) ==
    \E r \in rows : r.did = did_id

\* SELECT 1 FROM did_documents WHERE did = :did AND user_id = :user_id
SelectAuthorized(rows, did_id, user_id) ==
    \E r \in rows : r.did = did_id /\ r.user_id = user_id

\* SELECT cid FROM did_documents WHERE did = :did
SelectCid(rows, did_id) ==
    IF \E r \in rows : r.did = did_id
    THEN Some((CHOOSE r \in rows : r.did = did_id).cid)
    ELSE None

\* the UPDATE setting updated_at only
UpdatePointer_KeepsCid(rows, did_id, cid, updated_at) ==
    {IF r.did = did_id THEN [r EXCEPT !.updated_at = updated_at] ELSE r :
        r \in rows}

\* UPDATE did_documents SET cid = :cid, updated_at = :updated_at WHERE did = :did
UpdatePointer(rows, did_id, cid, updated_at) ==
    {IF r.did = did_id
     THEN [r EXCEPT !.cid = cid, !.updated_at = updated_at]
     ELSE r : r \in rows}

\* UPDATE did_documents SET cid, updated_at, dataverse_doi WHERE did = :did
UpdatePointerDoi(rows, did_id, cid, updated_at, dataverse_doi) ==
    {IF r.did = did_id
     THEN [r EXCEPT !.cid = cid, !.updated_at = updated_at,
                    !.dataverse_doi = Some(dataverse_doi)]
     ELSE r : r \in rows}

Contains(ids, id) == \E i \in 1..Len(ids) : ids[i] = id

\* Vec::retain(|e| !ids.contains(&e.id))
RetainNotIn(entries, ids) ==
    LET Keep(e) == ~Contains(ids, e.id) IN SelectSeq(entries, Keep)

\* the patch that leaves the controller and the updated timestamp as loaded
ApplyUpdateRequest_KeepsUpdated(doc, request, t) ==
    IF request.update_metadata # None
    THEN [doc EXCEPT !.metadata = Some(request.update_metadata[1])]
    ELSE doc

\* the patch with each removal applied before the addition to the same list
ApplyUpdateRequest_RemovesFirst(doc, request, t) ==
    LET d1 == IF request.controller # None
              THEN [doc EXCEPT !.controller = <<request.controller[1]>>]
              ELSE doc
        d2 == IF request.remove_verification_method # None
              THEN [d1 EXCEPT !.verification_method =
                       RetainNotIn(@, request.remove_verification_method[1])]
              ELSE d1
        d3 == IF request.add_verification_method # None
              THEN [d2 EXCEPT !.verification_method =
                                  @ \o request.add_verification_method[1]]
              ELSE d2
        d4 == IF request.remove_service # None
              THEN [d3 EXCEPT !.service = RetainNotIn(@, request.remove_service[1])]
              ELSE d3
        d5 == IF request.add_service # None
              THEN [d4 EXCEPT !.service = @ \o request.add_service[1]]
              ELSE d4
        d6 == IF request.update_metadata # None
              THEN [d5 EXCEPT !.metadata = Some(request.update_metadata[1])]
              ELSE d5
    IN  [d6 EXCEPT !.updated = t]

\* update_did: the patch applied to the loaded document, then updated = now
ApplyUpdateRequest(doc, request, t) ==
    LET d1 == IF request.controller # None
              THEN [doc EXCEPT !.controller = <<request.controller[1]>>]
              ELSE doc
        d2 == IF request.add_verification_method # None
              THEN [d1 EXCEPT !.verification_method =
                                  @ \o request.add_verification_method[1]]
              ELSE d1
        d3 == IF request.remove_verification_method # None
              THEN [d2 EXCEPT !.verification_method =
                       RetainNotIn(@, request.remove_verification_method[1])]
              ELSE d2
        d4 == IF request.add_service # None
              THEN [d3 EXCEPT !.service = @ \o request.add_service[1]]
              ELSE d3
        d5 == IF request.remove_service # None
              THEN [d4 EXCEPT !.service = RetainNotIn(@, request.remove_service[1])]
              ELSE d4
        d6 == IF request.update_metadata # None
              THEN [d5 EXCEPT !.metadata = Some(request.update_metadata[1])]
              ELSE d5
    IN  [d6 EXCEPT !.updated = t]

DataverseUrl(doi) ==
    "https://dataverse.harvard.edu/dataset.xhtml?persistentId=" \o doi

\* link_to_dataverse: the link written into the metadata, when there is metadata
ApplyDataverseLink(doc, dataverse_doi) ==
    IF doc.metadata # None
    THEN [doc EXCEPT !.metadata =
             Some([doc.metadata[1] EXCEPT !.doi = Some(dataverse_doi),
                       !.dataverse_link = Some(DataverseUrl(dataverse_doi))])]
    ELSE doc

\* get_did with the stores answering: the pointer row, the blob, the parse
get_did(rows, store, did_id) ==
    LET cid == SelectCid(rows, did_id) IN
    IF cid = None THEN Err("NotFound")
    ELSE IF ~HasContent(store, cid[1]) THEN Err("IPFSError")
    ELSE Ok(Deserialize(get_content(store, cid[1])))

-----------------------------------------------------------------------------
(* DIDService::create_did *)

\* create_did going on to the INSERT when add_content has failed
CreateDid_Add_IgnoresWriteError(p, request, user_id, uuid) ==
    /\ pc[p] = "idle"
    /\ LET did == generate_did(uuid)
           call == [op |-> "create_did", did |-> did, user_id |-> user_id]
           did_document == create_default_did_document(
               did, request.controller, request.public_key, request.metadata, now)
           did_json == Serialize(did_document)
       IN /\ ClockRead
          /\ \/ ipfs' = add_content(ipfs, did_json)
             \/ UNCHANGED ipfs
          /\ Goto(p, "create_insert",
                  [call |-> call, held |-> 0, doc |-> did_document,
                   cid |-> CidOf(did_json)])
    /\ UNCHANGED <<did_documents, ucan_tokens>>

\* generate_did, create_default_did_document, to_string, add_content
CreateDid_Add(p, request, user_id, uuid) ==
    /\ pc[p] = "idle"
    /\ LET did == generate_did(uuid)
           call == [op |-> "create_did", did |-> did, user_id |-> user_id]
           did_document == create_default_did_document(
               did, request.controller, request.public_key, request.metadata, now)
           did_json == Serialize(did_document)
       IN \/ /\ ClockRead
             /\ ipfs' = add_content(ipfs, did_json)
             /\ Goto(p, "create_insert",
                     [call |-> call, held |-> 0, doc |-> did_document,
                      cid |-> CidOf(did_json)])
          \/ /\ \E e \in StoreWriteErrors : Return(p, call, Err(e))
             /\ UNCHANGED <<now, ipfs>>
    /\ UNCHANGED <<did_documents, ucan_tokens>>

\* Utc::now, get_conn, INSERT INTO did_documents
CreateDid_Insert(p) ==
    /\ pc[p] = "create_insert"
    /\ \/ /\ Return(p, loc[p].call, Err("DatabaseError"))
          /\ UNCHANGED <<now, did_documents>>
       \/ /\ ConnAvailable
          /\ InsertAccepted(did_documents, loc[p].call.did)
          /\ ClockRead
          /\ did_documents' = InsertPointer(did_documents, loc[p].call.did,
                 loc[p].cid, loc[p].call.user_id,
                 FormatSeconds(now), FormatSeconds(now))
          /\ Return(p, loc[p].call, Ok(loc[p].doc))
    /\ UNCHANGED <<ipfs, ucan_tokens>>

-----------------------------------------------------------------------------
(* DIDService::get_did *)

GetDid(p, did_id) ==
    /\ pc[p] = "idle"
    /\ LET call == [op |-> "get_did", did |-> did_id] IN
       \/ Return(p, call, Err("DatabaseError"))
       \/ /\ ConnAvailable
          /\ Return(p, call, get_did(did_documents, ipfs, did_id))
    /\ UNCHANGED <<now, ipfs, did_documents, ucan_tokens>>

-----------------------------------------------------------------------------
(* DIDService::update_did *)

\* update_did looking the pointer row up before it checks the owner
UpdateDid_Authorize_LooksUpFirst(p, did_id, request, user_id) ==
    /\ pc[p] = "idle"
    /\ LET call == [op |-> "update_did", did |-> did_id, user_id |-> user_id,
                    request |-> request] IN
       \/ Return(p, call, Err("DatabaseError"))
       \/ /\ ConnAvailable
          /\ IF SelectCid(did_documents, did_id) = None
             THEN Return(p, call, Err("NotFound"))
             ELSE IF SelectAuthorized(did_documents, did_id, user_id)
             THEN Goto(p, "update_get", [call |-> call, held |-> 1])
             ELSE Return(p, call, Err("AuthorizationError"))
    /\ UNCHANGED <<now, ipfs, did_documents, ucan_tokens>>

\* get_conn, SELECT 1 ... WHERE did AND user_id; the connection stays held
UpdateDid_Authorize(p, did_id, request, user_id) ==
    /\ pc[p] = "idle"
    /\ LET call == [op |-> "update_did", did |-> did_id, user_id |-> user_id,
                    request |-> request] IN
       \/ Return(p, call, Err("DatabaseError"))
       \/ /\ ConnAvailable
          /\ IF SelectAuthorized(did_documents, did_id, user_id)
             THEN Goto(p, "update_get", [call |-> call, held |-> 1])
             ELSE Return(p, call, Err("AuthorizationError"))
    /\ UNCHANGED <<now, ipfs, did_documents, ucan_tokens>>

\* self.get_did(did_id): a further connection, SELECT cid, get_content, from_str
UpdateDid_Get(p) ==
    /\ pc[p] = "update_get"
    /\ \/ \E e \in {"DatabaseError", "IPFSError"} : Return(p, loc[p].call, Err(e))
       \/ /\ ConnAvailable
          /\ LET got == get_did(did_documents, ipfs, loc[p].call.did) IN
             IF got.status = "Ok"
             THEN Goto(p, "update_add",
                       [call |-> loc[p].call, held |-> 1, loaded |-> got.value])
             ELSE Return(p, loc[p].call, got)
    /\ UNCHANGED <<now, ipfs, did_documents, ucan_tokens>>

\* update_did patching the document as stored now, not the one it loaded
UpdateDid_Add_PatchesStored(p) ==
    /\ pc[p] = "update_add"
    /\ LET stored == get_did(did_documents, ipfs, loc[p].call.did).value
           did_document == ApplyUpdateRequest(stored, loc[p].call.request, now)
           did_json == Serialize(did_document)
       IN /\ ClockRead
          /\ ipfs' = add_content(ipfs, did_json)
          /\ Goto(p, "update_write",
                  [call |-> loc[p].call, held |-> 1,
                   loaded |-> loc[p].loaded, doc |-> did_document,
                   cid |-> CidOf(did_json)])
    /\ UNCHANGED <<did_documents, ucan_tokens>>

\* the patch, updated = Utc::now(), to_string, add_content
UpdateDid_Add(p) ==
    /\ pc[p] = "update_add"
    /\ LET did_document ==
               ApplyUpdateRequest(loc[p].loaded, loc[p].call.request, now)
           did_json == Serialize(did_document)
       IN \/ /\ ClockRead
             /\ ipfs' = add_content(ipfs, did_json)
             /\ Goto(p, "update_write",
                     [call |-> loc[p].call, held |-> 1,
                      loaded |-> loc[p].loaded, doc |-> did_document,
                      cid |-> CidOf(did_json)])
          \/ /\ \E e \in StoreWriteErrors : Return(p, loc[p].call, Err(e))
             /\ UNCHANGED <<now, ipfs>>
    /\ UNCHANGED <<did_documents, ucan_tokens>>

\* update_did reporting DatabaseError although its UPDATE was applied
UpdateDid_Write_FailsAfterUpdate(p) ==
    /\ pc[p] = "update_write"
    /\ ConnAvailable
    /\ ClockRead
    /\ did_documents' = UpdatePointer(did_documents, loc[p].call.did,
                            loc[p].cid, FormatSeconds(now))
    /\ \/ Return(p, loc[p].call, Ok(loc[p].doc))
       \/ Return(p, loc[p].call, Err("DatabaseError"))
    /\ UNCHANGED <<ipfs, ucan_tokens>>

\* Utc::now, a further connection, UPDATE did_documents SET cid, updated_at
UpdateDid_Write(p) ==
    /\ pc[p] = "update_write"
    /\ \/ /\ Return(p, loc[p].call, Err("DatabaseError"))
          /\ UNCHANGED <<now, did_documents>>
       \/ /\ ConnAvailable
          /\ ClockRead
          /\ did_documents' = UpdatePointer(did_documents, loc[p].call.did,
                                  loc[p].cid, FormatSeconds(now))
          /\ Return(p, loc[p].call, Ok(loc[p].doc))
    /\ UNCHANGED <<ipfs, ucan_tokens>>

-----------------------------------------------------------------------------
(* DIDService::link_to_dataverse *)

\* link_to_dataverse going on for any user once the did has a row
Link_Authorize_NoOwnerCheck(p, did_id, dataverse_doi, user_id) ==
    /\ pc[p] = "idle"
    /\ LET call == [op |-> "link_to_dataverse", did |-> did_id,
                    user_id |-> user_id, dataverse_doi |-> dataverse_doi] IN
       \/ Return(p, call, Err("DatabaseError"))
       \/ /\ ConnAvailable
          /\ IF SelectCid(did_documents, did_id) # None
             THEN Goto(p, "link_get", [call |-> call, held |-> 1])
             ELSE Return(p, call, Err("AuthorizationError"))
    /\ UNCHANGED <<now, ipfs, did_documents, ucan_tokens>>

\* get_conn, SELECT 1 ... WHERE did AND user_id; the connection stays held
Link_Authorize(p, did_id, dataverse_doi, user_id) ==
    /\ pc[p] = "idle"
    /\ LET call == [op |-> "link_to_dataverse", did |-> did_id,
                    user_id |-> user_id, dataverse_doi |-> dataverse_doi] IN
       \/ Return(p, call, Err("DatabaseError"))
       \/ /\ ConnAvailable
          /\ IF SelectAuthorized(did_documents, did_id, user_id)
             THEN Goto(p, "link_get", [call |-> call, held |-> 1])
             ELSE Return(p, call, Err("AuthorizationError"))
    /\ UNCHANGED <<now, ipfs, did_documents, ucan_tokens>>

Link_Get(p) ==
    /\ pc[p] = "link_get"
    /\ \/ \E e \in {"DatabaseError", "IPFSError"} : Return(p, loc[p].call, Err(e))
       \/ /\ ConnAvailable
          /\ LET got == get_did(did_documents, ipfs, loc[p].call.did) IN
             IF got.status = "Ok"
             THEN Goto(p, "link_add",
                       [call |-> loc[p].call, held |-> 1, loaded |-> got.value])
             ELSE Return(p, loc[p].call, got)
    /\ UNCHANGED <<now, ipfs, did_documents, ucan_tokens>>

\* the link written into the metadata, to_string, add_content
Link_Add(p) ==
    /\ pc[p] = "link_add"
    /\ LET did_document ==
               ApplyDataverseLink(loc[p].loaded, loc[p].call.dataverse_doi)
           did_json == Serialize(did_document)
       IN \/ /\ ipfs' = add_content(ipfs, did_json)
             /\ Goto(p, "link_write",
                     [call |-> loc[p].call, held |-> 1,
                      loaded |-> loc[p].loaded, doc |-> did_document,
                      cid |-> CidOf(did_json)])
          \/ /\ \E e \in StoreWriteErrors : Return(p, loc[p].call, Err(e))
             /\ UNCHANGED ipfs
    /\ UNCHANGED <<now, did_documents, ucan_tokens>>

\* Utc::now, a further connection, UPDATE ... SET cid, updated_at, dataverse_doi
Link_Write(p) ==
    /\ pc[p] = "link_write"
    /\ \/ /\ Return(p, loc[p].call, Err("DatabaseError"))
          /\ UNCHANGED <<now, did_documents>>
       \/ /\ ConnAvailable
          /\ ClockRead
          /\ did_documents' = UpdatePointerDoi(did_documents, loc[p].call.did,
                 loc[p].cid, FormatSeconds(now), loc[p].call.dataverse_doi)
          /\ Return(p, loc[p].call, Ok(None))
    /\ UNCHANGED <<ipfs, ucan_tokens>>

-----------------------------------------------------------------------------
(* A request dropped at an await point, or the process stopping there: its  *)
(* connections go back to the pool and nothing further is written.         *)

Abandon(p) ==
    /\ pc[p] # "idle"
    /\ Return(p, loc[p].call, [status |-> "Abandoned"])
    /\ UNCHANGED <<now, ipfs, did_documents, ucan_tokens>>

-----------------------------------------------------------------------------
(* services/ucan_service.rs *)

\* "did:key:z6Mkha..." as its ':'-free segments
ServiceDid == <<"did", "key", "z6MkhaXgBZDvotDkL5257faiztiGiC2QtKLGpbnnEGta2doK">>

Audiences == {<<"did", "bio", "lab7">>}

\* Vec<BioCapability> handed to issue_token and delegate_capability
CapabilityLists ==
    { <<[resource |-> <<"Dataset", "ds1">>, action |-> "Update"]>> }

\* UcanIssueRequest.expiration, the lifetime in seconds the caller of the issue
\* route asks for: none, or one hour
Expirations == {None, Some(SecondsPerHour)}

\* issue_token's conversion of BioCapability to (resource, action) strings
ResourceUri(resource) ==
    CASE resource[1] = "Dataset" -> "bio://dataset/" \o resource[2]
      [] resource[1] = "DID" -> "bio://did/" \o resource[2]
      [] resource[1] = "File" -> "bio://file/" \o resource[2]
      [] resource[1] = "Metadata" -> "bio://metadata/" \o resource[2]
      [] OTHER -> "bio://user/" \o resource[2]

ActionName(action) ==
    CASE action = "Create" -> "create"
      [] action = "Read" -> "read"
      [] action = "Update" -> "update"
      [] action = "Delete" -> "delete"
      [] action = "Upload" -> "upload"
      [] action = "Download" -> "download"
      [] action = "Process" -> "process"
      [] OTHER -> "publish"

UcanCapabilities(capabilities) ==
    [i \in 1..Len(capabilities) |->
        <<ResourceUri(capabilities[i].resource),
          ActionName(capabilities[i].action)>>]

\* the first uuid::Uuid::new_v4() of issue_token and delegate_capability, the one
\* put into the token string: a value no other call draws, named after the
\* instant of the call
NewTokenUuid(t) == "uuid-" \o ToString(t)

\* format!("ucan:demo:{}:{}:{}:{}", token_id, issuer, audience, now.timestamp())
FormatToken(token_id, issuer, audience, t) ==
    <<"ucan", "demo", token_id>> \o issuer \o audience
        \o <<ToString(FormatSeconds(t))>>

\* the row written with a lifetime of zero
TokenRow_NoLifetime(id, user_id, token, audience_did, t, exp, delegated_from) ==
    [id |-> id, user_id |-> user_id, token |-> token,
     audience_did |-> audience_did,
     issued_at |-> FormatSeconds(t), expires_at |-> FormatSeconds(t),
     revoked |-> FALSE, revoked_at |-> None, delegated_from |-> delegated_from]

TokenRow(id, user_id, token, audience_did, t, exp, delegated_from) ==
    [id |-> id, user_id |-> user_id, token |-> token,
     audience_did |-> audience_did,
     issued_at |-> FormatSeconds(t), expires_at |-> FormatSeconds(exp),
     revoked |-> FALSE, revoked_at |-> None, delegated_from |-> delegated_from]

\* id is the PRIMARY KEY of ucan_tokens
TokenInsertAccepted(rows, id) == ~ \E r \in rows : r.id = id

\* the capabilities verify_token answers with
DummyCapabilities == << <<"bio://dataset/*", "read">>, <<"bio://did/*", "read">> >>

\* verify_token: the split on ':' and the format test; nothing else is looked at
verify_token(token) ==
    IF Len(token) < 6 \/ token[1] # "ucan" \/ token[2] # "demo"
    THEN Err("AuthError")
    ELSE Ok(DummyCapabilities)

has_capability(token, resource, action) ==
    LET capabilities == verify_token(token) IN
    IF capabilities.status = "Err" THEN Err(capabilities.error)
    ELSE Ok(\E i \in 1..Len(capabilities.value) :
                capabilities.value[i] = <<resource, action>>)

\* from_token.split(':').nth(3).unwrap_or("unknown")
IssuerOf(from_token) == IF Len(from_token) >= 4 THEN from_token[4] ELSE "unknown"

\* the ownership SELECT of revoke_token without its user_id condition
SelectOwnedToken_AnyUser(rows, token_id, user_id) ==
    \E r \in rows : r.id = token_id

\* SELECT 1 FROM ucan_tokens WHERE id = :id AND user_id = :user_id
SelectOwnedToken(rows, token_id, user_id) ==
    \E r \in rows : r.id = token_id /\ r.user_id = user_id

\* the UPDATE of revoke_token without its WHERE clause
MarkRevoked_AllRows(rows, token_id, t) ==
    {[r EXCEPT !.revoked = TRUE, !.revoked_at = Some(FormatSeconds(t))] :
        r \in rows}

\* the UPDATE of revoke_token reaching the delegated rows as well
MarkRevoked_Cascade(rows, token_id, t) ==
    {IF r.id = token_id \/ r.delegated_from # None
     THEN [r EXCEPT !.revoked = TRUE, !.revoked_at = Some(FormatSeconds(t))]
     ELSE r : r \in rows}

\* UPDATE ucan_tokens SET revoked = TRUE, revoked_at = :revoked_at WHERE id = :id
MarkRevoked(rows, token_id, t) ==
    {IF r.id = token_id
     THEN [r EXCEPT !.revoked = TRUE, !.revoked_at = Some(FormatSeconds(t))]
     ELSE r : r \in rows}

\* token strings that do not decode, and well-formed ones no call returned
MalformedTokens ==
    { <<"not-a-token">>,
      <<"ucan", "demo", "u1", "did", "key">>,
      <<"jwt", "demo", "u1", "did", "aud", "0">> }
ForgedTokens ==
    { <<"ucan", "demo", "u9", "did", "aud", "soon">> }

StoredTokens == {r.token : r \in ucan_tokens}
TokenStrings == StoredTokens \cup MalformedTokens \cup ForgedTokens

\* what a caller hands to delegate_capability as from_token
ParentTokens == StoredTokens \cup ForgedTokens \cup {<<"not-a-token">>}

\* what a caller may hand to revoke_token as token_id: a row id, or the token
\* string (the route passes req.token)
TokenIdArguments == {<<u>> : u \in Uuids} \cup StoredTokens

-----------------------------------------------------------------------------
(* UcanService::issue_token *)

IssueToken(p, user_id, audience_did, capabilities, uuid2) ==
    /\ pc[p] = "idle"
    /\ LET call == [op |-> "issue_token", user_id |-> user_id,
                    audience_did |-> audience_did,
                    capabilities |-> capabilities]
           expiry == now + ExpiryTicks
           token == FormatToken(NewTokenUuid(now), ServiceDid, audience_did, now)
           token_id == <<uuid2>>
       IN \/ /\ Return(p, call, Err("DatabaseError"))
             /\ UNCHANGED <<now, ucan_tokens>>
          \/ /\ ConnAvailable
             /\ TokenInsertAccepted(ucan_tokens, token_id)
             /\ ClockRead
             /\ ucan_tokens' = ucan_tokens \cup
                    {TokenRow(token_id, user_id, token, audience_did, now,
                              expiry, None)}
             /\ Return(p, call, Ok(token))
    /\ UNCHANGED <<ipfs, did_documents>>

-----------------------------------------------------------------------------
(* UcanService::verify_token, has_capability, is_token_revoked *)

VerifyToken(p, token) ==
    /\ pc[p] = "idle"
    /\ Return(p, [op |-> "verify_token", token |-> token], verify_token(token))
    /\ UNCHANGED <<now, ipfs, did_documents, ucan_tokens>>

HasCapability(p, token, resource, action) ==
    /\ pc[p] = "idle"
    /\ Return(p, [op |-> "has_capability", token |-> token,
                  resource |-> resource, action |-> action],
              has_capability(token, resource, action))
    /\ UNCHANGED <<now, ipfs, did_documents, ucan_tokens>>

\* SELECT revoked FROM ucan_tokens WHERE token = :token, first row
IsTokenRevoked(p, token) ==
    /\ pc[p] = "idle"
    /\ LET call == [op |-> "is_token_revoked", token |-> token] IN
       \/ /\ Len(token) < 3
          /\ Return(p, call, Err("AuthError"))
       \/ /\ Len(token) >= 3
          /\ Return(p, call, Err("DatabaseError"))
       \/ /\ Len(token) >= 3
          /\ ConnAvailable
          /\ \/ \E r \in ucan_tokens :
                   /\ r.token = token
                   /\ Return(p, call, Ok(r.revoked))
             \/ /\ ~ \E r \in ucan_tokens : r.token = token
                /\ Return(p, call, Ok(FALSE))
    /\ UNCHANGED <<now, ipfs, did_documents, ucan_tokens>>

-----------------------------------------------------------------------------
(* UcanService::delegate_capability *)

\* delegate_capability without the verify_token of the parent
DelegateCapability_NoParentCheck(p, user_id, from_token, to_did, capabilities, uuid2) ==
    /\ pc[p] = "idle"
    /\ LET call == [op |-> "delegate_capability", user_id |-> user_id,
                    from_token |-> from_token, to_did |-> to_did,
                    capabilities |-> capabilities]
           expiry == now + ExpiryTicks
           token == FormatToken(NewTokenUuid(now), <<"delegated">>, to_did, now)
           issuer == IssuerOf(from_token)
           token_id == <<uuid2>>
       IN /\ ConnAvailable
          /\ TokenInsertAccepted(ucan_tokens, token_id)
          /\ ClockRead
          /\ ucan_tokens' = ucan_tokens \cup
                 {TokenRow(token_id, user_id, token, to_did, now, expiry,
                           Some(issuer))}
          /\ Return(p, call, Ok(token))
    /\ UNCHANGED <<ipfs, did_documents>>

\* delegate_capability turning down a parent whose row is revoked
DelegateCapability_RequiresLiveParent(p, user_id, from_token, to_did, capabilities, uuid2) ==
    /\ pc[p] = "idle"
    /\ LET call == [op |-> "delegate_capability", user_id |-> user_id,
                    from_token |-> from_token, to_did |-> to_did,
                    capabilities |-> capabilities]
           expiry == now + ExpiryTicks
           verified == IF \E r \in ucan_tokens :
                               r.token = from_token /\ r.revoked
                       THEN Err("AuthError")
                       ELSE verify_token(from_token)
           token == FormatToken(NewTokenUuid(now), <<"delegated">>, to_did, now)
           issuer == IssuerOf(from_token)
           token_id == <<uuid2>>
       IN \/ /\ verified.status = "Err"
             /\ Return(p, call, verified)
             /\ UNCHANGED <<now, ucan_tokens>>
          \/ /\ verified.status = "Ok"
             /\ Return(p, call, Err("DatabaseError"))
             /\ UNCHANGED <<now, ucan_tokens>>
          \/ /\ verified.status = "Ok"
             /\ ConnAvailable
             /\ TokenInsertAccepted(ucan_tokens, token_id)
             /\ ClockRead
             /\ ucan_tokens' = ucan_tokens \cup
                    {TokenRow(token_id, user_id, token, to_did, now, expiry,
                              Some(issuer))}
             /\ Return(p, call, Ok(token))
    /\ UNCHANGED <<ipfs, did_documents>>

\* verify_token(from_token), the new token string, get_conn, INSERT
DelegateCapability(p, user_id, from_token, to_did, capabilities, uuid2) ==
    /\ pc[p] = "idle"
    /\ LET call == [op |-> "delegate_capability", user_id |-> user_id,
                    from_token |-> from_token, to_did |-> to_did,
                    capabilities |-> capabilities]
           expiry == now + ExpiryTicks
           verified == verify_token(from_token)
           token == FormatToken(NewTokenUuid(now), <<"delegated">>, to_did, now)
           issuer == IssuerOf(from_token)
           token_id == <<uuid2>>
       IN \/ /\ verified.status = "Err"
             /\ Return(p, call, verified)
             /\ UNCHANGED <<now, ucan_tokens>>
          \/ /\ verified.status = "Ok"
             /\ Return(p, call, Err("DatabaseError"))
             /\ UNCHANGED <<now, ucan_tokens>>
          \/ /\ verified.status = "Ok"
             /\ ConnAvailable
             /\ TokenInsertAccepted(ucan_tokens, token_id)
             /\ ClockRead
             /\ ucan_tokens' = ucan_tokens \cup
                    {TokenRow(token_id, user_id, token, to_did, now, expiry,
                              Some(issuer))}
             /\ Return(p, call, Ok(token))
    /\ UNCHANGED <<ipfs, did_documents>>

-----------------------------------------------------------------------------
(* UcanService::revoke_token *)

\* get_conn, SELECT 1 ... WHERE id AND user_id; the connection stays held
Revoke_Check(p, user_id, token_id) ==
    /\ pc[p] = "idle"
    /\ LET call == [op |-> "revoke_token", user_id |-> user_id,
                    token_id |-> token_id] IN
       \/ Return(p, call, Err("DatabaseError"))
       \/ /\ ConnAvailable
          /\ IF SelectOwnedToken(ucan_tokens, token_id, user_id)
             THEN Goto(p, "revoke_update", [call |-> call, held |-> 1])
             ELSE Return(p, call, Err("NotFound"))
    /\ UNCHANGED <<now, ipfs, did_documents, ucan_tokens>>

\* Utc::now, UPDATE ucan_tokens SET revoked = TRUE, revoked_at on the same connection
Revoke_Update(p) ==
    /\ pc[p] = "revoke_update"
    /\ \/ /\ Return(p, loc[p].call, Err("DatabaseError"))
          /\ UNCHANGED <<now, ucan_tokens>>
       \/ /\ ClockRead
          /\ ucan_tokens' = MarkRevoked(ucan_tokens, loc[p].call.token_id, now)
          /\ Return(p, loc[p].call, Ok(None))
    /\ UNCHANGED <<ipfs, did_documents>>

-----------------------------------------------------------------------------
(* Time passing with no call reading the clock *)

\* the lifetime of a token and one second more go by
DayPasses ==
    /\ now < ExpiryTicks
    /\ now' = now + ExpiryTicks + TicksPerSecond
    /\ ret' = NoReturn
    /\ UNCHANGED <<ipfs, did_documents, ucan_tokens, pc, loc, results>>

-----------------------------------------------------------------------------

Init ==
    /\ now = 0
    /\ ipfs = {}
    /\ did_documents = {}
    /\ ucan_tokens = {}
    /\ pc = [p \in AllProcs |-> "idle"]
    /\ loc = [p \in AllProcs |-> Idle]
    /\ ret = NoReturn
    /\ results = [p \in AllProcs |-> NoReturn]

CreateDidAdd == \E p \in Procs, request \in CreationRequests, u \in Users,
                   uuid \in Uuids : CreateDid_Add(p, request, u, uuid)
CreateDidInsert == \E p \in Procs : CreateDid_Insert(p)
GetDidCall == \E p \in Procs, d \in DIDs : GetDid(p, d)
UpdateDidAuthorize == \E p \in Procs, d \in DIDs, request \in UpdateRequests,
                         u \in Users : UpdateDid_Authorize(p, d, request, u)
UpdateDidGet == \E p \in Procs : UpdateDid_Get(p)
UpdateDidAdd == \E p \in Procs : UpdateDid_Add(p)
UpdateDidWrite == \E p \in Procs : UpdateDid_Write(p)
LinkAuthorize == \E p \in Procs, d \in DIDs, doi \in Dois, u \in Users :
                    Link_Authorize(p, d, doi, u)
LinkGet == \E p \in Procs : Link_Get(p)
LinkAdd == \E p \in Procs : Link_Add(p)
LinkWrite == \E p \in Procs : Link_Write(p)
AbandonCall == \E p \in Procs : Abandon(p)

NextDid ==
    \/ CreateDidAdd
    \/ CreateDidInsert
    \/ GetDidCall
    \/ UpdateDidAuthorize
    \/ UpdateDidGet
    \/ UpdateDidAdd
    \/ UpdateDidWrite
    \/ LinkAuthorize
    \/ LinkGet
    \/ LinkAdd
    \/ LinkWrite
    \/ AbandonCall

SpecDid == Init /\ [][NextDid]_vars

IssueTokenCall ==
    \E p \in Procs, u \in Users, a \in Audiences, c \in CapabilityLists,
       uuid2 \in Uuids : IssueToken(p, u, a, c, uuid2)
VerifyTokenCall == \E p \in Procs, t \in TokenStrings : VerifyToken(p, t)
HasCapabilityCall ==
    \E p \in Procs, t \in TokenStrings :
        HasCapability(p, t, "bio://did/*", "read")
IsTokenRevokedCall == \E p \in Procs, t \in TokenStrings : IsTokenRevoked(p, t)
DelegateCapabilityCall ==
    \E p \in Procs, u \in Users, t \in ParentTokens, a \in Audiences,
       c \in CapabilityLists, uuid2 \in Uuids :
        DelegateCapability(p, u, t, a, c, uuid2)
RevokeCheck == \E p \in Procs, u \in Users, t \in TokenIdArguments :
                  Revoke_Check(p, u, t)
RevokeUpdate == \E p \in Procs : Revoke_Update(p)

NextUcan ==
    \/ IssueTokenCall
    \/ VerifyTokenCall
    \/ HasCapabilityCall
    \/ IsTokenRevokedCall
    \/ DelegateCapabilityCall
    \/ RevokeCheck
    \/ RevokeUpdate
    \/ AbandonCall
    \/ DayPasses

SpecUcan == Init /\ [][NextUcan]_vars

\* every call that writes rows, of both services, and no query
NextMutations ==
    \/ CreateDidAdd
    \/ CreateDidInsert
    \/ UpdateDidAuthorize
    \/ UpdateDidGet
    \/ UpdateDidAdd
    \/ UpdateDidWrite
    \/ LinkAuthorize
    \/ LinkGet
    \/ LinkAdd
    \/ LinkWrite
    \/ IssueTokenCall
    \/ DelegateCapabilityCall
    \/ RevokeCheck
    \/ RevokeUpdate
    \/ AbandonCall

\* the document user 1 gets from create_did when the clock reads 0
FirstDocument ==
    LET request == CHOOSE r \in CreationRequests : TRUE
    IN  create_default_did_document(generate_did("u1"), request.controller,
            request.public_key, request.metadata, 0)

\* the state that create_did leaves, its two clock reads being 0 and 1
InitOneDocument ==
    /\ now = 2
    /\ ipfs = add_content({}, Serialize(FirstDocument))
    /\ did_documents = InsertPointer({}, FirstDocument.id,
           CidOf(Serialize(FirstDocument)), 1, FormatSeconds(1), FormatSeconds(1))
    /\ ucan_tokens = {}
    /\ pc = [p \in AllProcs |-> "idle"]
    /\ loc = [p \in AllProcs |-> Idle]
    /\ ret = NoReturn
    /\ results = [p \in AllProcs |-> NoReturn]

SpecMutations == InitOneDocument /\ [][NextMutations]_vars

\* the state a day after create_did returned FirstDocument, no call in progress
InitRace ==
    /\ now = ExpiryTicks + TicksPerSecond
    /\ ipfs = add_content({}, Serialize(FirstDocument))
    /\ did_documents = InsertPointer({}, FirstDocument.id,
           CidOf(Serialize(FirstDocument)), 1, FormatSeconds(1), FormatSeconds(1))
    /\ ucan_tokens = {}
    /\ pc = [p \in AllProcs |-> "idle"]
    /\ loc = [p \in AllProcs |-> Idle]
    /\ ret = NoReturn
    /\ results = [p \in AllProcs |-> NoReturn]

\* update_did of the one identity, called by its owner from requests that run
\* side by side
RaceUpdateAuthorize ==
    \E p \in RaceProcs, request \in UpdateRequests :
        UpdateDid_Authorize(p, FirstDocument.id, request, 1)
RaceUpdateGet == \E p \in RaceProcs : UpdateDid_Get(p)
RaceUpdateAdd == \E p \in RaceProcs : UpdateDid_Add(p)
RaceUpdateWrite == \E p \in RaceProcs : UpdateDid_Write(p)

NextRace ==
    \/ RaceUpdateAuthorize
    \/ RaceUpdateGet
    \/ RaceUpdateAdd
    \/ RaceUpdateWrite

SpecRace == InitRace /\ [][NextRace]_vars

\* FirstDocument after an update_did that added KeyA and ServiceA, its two
\* clock reads being 2 and 3
SecondDocument ==
    ApplyUpdateRequest(FirstDocument,
        [NoPatch EXCEPT !.add_verification_method = Some(<<KeyA>>),
                        !.add_service = Some(<<ServiceA>>)], 2)

\* a day and a second later, no call in progress: the identity of user 1 is
\* as created, or as that update left it
InitPatch ==
    /\ now = ExpiryTicks + TicksPerSecond + 2
    /\ \/ /\ ipfs = add_content({}, Serialize(FirstDocument))
          /\ did_documents = InsertPointer({}, FirstDocument.id,
                 CidOf(Serialize(FirstDocument)), 1,
                 FormatSeconds(1), FormatSeconds(1))
       \/ /\ ipfs = add_content(add_content({}, Serialize(FirstDocument)),
                                Serialize(SecondDocument))
          /\ did_documents = UpdatePointer(
                 InsertPointer({}, FirstDocument.id,
                     CidOf(Serialize(FirstDocument)), 1,
                     FormatSeconds(1), FormatSeconds(1)),
                 FirstDocument.id, CidOf(Serialize(SecondDocument)),
                 FormatSeconds(3))
    /\ ucan_tokens = {}
    /\ pc = [p \in AllProcs |-> "idle"]
    /\ loc = [p \in AllProcs |-> Idle]
    /\ ret = NoReturn
    /\ results = [p \in AllProcs |-> NoReturn]

\* update_did of the one identity by its owner, with every patch of
\* PatchRequests
PatchAuthorize ==
    \E p \in Procs, request \in PatchRequests :
        UpdateDid_Authorize(p, FirstDocument.id, request, 1)

NextPatch ==
    \/ PatchAuthorize
    \/ UpdateDidGet
    \/ UpdateDidAdd
    \/ UpdateDidWrite

SpecPatch == InitPatch /\ [][NextPatch]_vars

\* update_did and link_to_dataverse of the one identity, called by its owner
\* from as many requests as run side by side
PoolUpdateAuthorize ==
    \E p \in AllProcs : UpdateDid_Authorize(p, FirstDocument.id, NoPatch, 1)
PoolUpdateGet == \E p \in AllProcs : UpdateDid_Get(p)
PoolUpdateAdd == \E p \in AllProcs : UpdateDid_Add(p)
PoolUpdateWrite == \E p \in AllProcs : UpdateDid_Write(p)
PoolLinkAuthorize ==
    \E p \in AllProcs, doi \in Dois : Link_Authorize(p, FirstDocument.id, doi, 1)
PoolLinkGet == \E p \in AllProcs : Link_Get(p)
PoolLinkAdd == \E p \in AllProcs : Link_Add(p)
PoolLinkWrite == \E p \in AllProcs : Link_Write(p)

NextPool ==
    \/ PoolUpdateAuthorize
    \/ PoolUpdateGet
    \/ PoolUpdateAdd
    \/ PoolUpdateWrite
    \/ PoolLinkAuthorize
    \/ PoolLinkGet
    \/ PoolLinkAdd
    \/ PoolLinkWrite

SpecPool == InitOneDocument /\ [][NextPool]_vars

\* create_did, update_did and link_to_dataverse called by either user from two
\* requests that run side by side
OwnersCreateAdd ==
    \E p \in RaceProcs, request \in CreationRequests, u \in Users, uuid \in Uuids :
        CreateDid_Add(p, request, u, uuid)
OwnersCreateInsert == \E p \in RaceProcs : CreateDid_Insert(p)
OwnersUpdateAuthorize ==
    \E p \in RaceProcs, d \in DIDs, u \in Users :
        UpdateDid_Authorize(p, d,
            [NoPatch EXCEPT !.controller = Some("did:bio:ctl2")], u)
OwnersUpdateGet == \E p \in RaceProcs : UpdateDid_Get(p)
OwnersUpdateAdd == \E p \in RaceProcs : UpdateDid_Add(p)
OwnersUpdateWrite == \E p \in RaceProcs : UpdateDid_Write(p)
OwnersLinkAuthorize ==
    \E p \in RaceProcs, d \in DIDs, doi \in Dois, u \in Users :
        Link_Authorize(p, d, doi, u)
OwnersLinkGet == \E p \in RaceProcs : Link_Get(p)
OwnersLinkAdd == \E p \in RaceProcs : Link_Add(p)
OwnersLinkWrite == \E p \in RaceProcs : Link_Write(p)

NextOwners ==
    \/ OwnersCreateAdd
    \/ OwnersCreateInsert
    \/ OwnersUpdateAuthorize
    \/ OwnersUpdateGet
    \/ OwnersUpdateAdd
    \/ OwnersUpdateWrite
    \/ OwnersLinkAuthorize
    \/ OwnersLinkGet
    \/ OwnersLinkAdd
    \/ OwnersLinkWrite

SpecOwners == InitOneDocument /\ [][NextOwners]_vars

-----------------------------------------------------------------------------
(* Properties *)

Returned(op) == ret.proc # "none" /\ ret.call.op = op
ReturnedOk(op) == Returned(op) /\ ret.val.status = "Ok"
ReturnedErr(op, kind) ==
    Returned(op) /\ ret.val.status = "Err" /\ ret.val.error = kind

\* a blob of the store that no pointer row points to
OrphanBlob == \E b \in ipfs : \A r \in did_documents : r.cid # CidOf(b)

\* get_did of every identity, as the stores would answer it
Documents(rows, store) == [d \in DIDs |-> get_did(rows, store, d)]

-----------------------------------------------------------------------------
\* C1: revocation is terminal. When verify_token answers for a token whose
\* row has been revoked, the answer is never the valid one.
C1_RevocationTerminal ==
    Returned("verify_token") =>
        \A r \in ucan_tokens :
            (r.token = ret.call.token /\ r.revoked) => ret.val.status # "Ok"

-----------------------------------------------------------------------------
\* C2: ownership enforcement. update_did called for an identity that has a row
\* owned by another user returns at once with an error, AuthorizationError
\* unless the connection or the statement itself failed, and the pointer rows
\* and the document get_did returns are the same after the call as before.
C2_OwnershipEnforced ==
    [][\A p \in Procs :
          LET call == IF ret'.proc = p THEN ret'.call ELSE loc'[p].call IN
          (/\ pc[p] = "idle"
           /\ call.op = "update_did"
           /\ \E r \in did_documents :
                  r.did = call.did /\ r.user_id # call.user_id)
          => /\ pc'[p] = "idle"
             /\ ret'.val.status = "Err"
             /\ ret'.val.error \in {"AuthorizationError", "DatabaseError"}
             /\ did_documents' = did_documents
             /\ get_did(did_documents', ipfs', call.did)
                    = get_did(did_documents, ipfs, call.did)
      ]_vars

\* update_did by a user who does not own the identity has answered
\* AuthorizationError
C2_Witness ==
    /\ ReturnedErr("update_did", "AuthorizationError")
    /\ \E r \in did_documents :
           r.did = ret.call.did /\ r.user_id # ret.call.user_id

-----------------------------------------------------------------------------
\* C3: expiry boundary. For a stored token that is not revoked, verify_token
\* answers valid exactly when the time is not past the row's expires_at.
C3_ExpiryBoundary ==
    Returned("verify_token") =>
        \A r \in ucan_tokens :
            (r.token = ret.call.token /\ ~r.revoked) =>
                (ret.val.status = "Ok" <=> FormatSeconds(now) <= r.expires_at)

-----------------------------------------------------------------------------
\* C4: the cid of every pointer row is present in the Content Store, and a
\* call stands before its pointer write only with its blob in the store.
C4_PointerResolves ==
    /\ \A r \in did_documents : HasContent(ipfs, r.cid)
    /\ \A p \in Procs :
           pc[p] \in {"create_insert", "update_write", "link_write"} =>
               HasContent(ipfs, loc[p].cid)

\* a call stopped between its content write and its pointer write: the blob
\* is in the store, no row points to it, the rows that exist resolve
C4_Witness ==
    /\ ret.proc # "none"
    /\ ret.call.op \in {"create_did", "update_did", "link_to_dataverse"}
    /\ ret.val.status \in {"Abandoned", "Err"}
    /\ did_documents # {}
    /\ OrphanBlob

-----------------------------------------------------------------------------
\* C5: round trip. When create_did has returned a document, get_did of its id
\* returns a document with the same id, controller, verification methods,
\* authentication, services and metadata.
C5_RoundTrip ==
    ReturnedOk("create_did") =>
        LET d == ret.val.value
            got == get_did(did_documents, ipfs, d.id)
        IN  /\ got.status = "Ok"
            /\ got.value.id = d.id
            /\ got.value.controller = d.controller
            /\ got.value.verification_method = d.verification_method
            /\ got.value.authentication = d.authentication
            /\ got.value.service = d.service
            /\ got.value.metadata = d.metadata

\* create_did has returned a document that carries metadata and a key
C5_Witness ==
    /\ ReturnedOk("create_did")
    /\ ret.val.value.metadata # None
    /\ Len(ret.val.value.verification_method) = 1
    /\ ret.val.value.id = ret.call.did

-----------------------------------------------------------------------------
\* C6: versioning. The step on which update_did succeeds takes get_did of the
\* identity from the document before to one that has the patch applied, the
\* rest as before, and a strictly greater updated timestamp.
C6_Versioning ==
    [][(ret'.proc # "none" /\ ret'.call.op = "update_did"
            /\ ret'.val.status = "Ok") =>
        LET request == ret'.call.request
            before == get_did(did_documents, ipfs, ret'.call.did)
            after == get_did(did_documents', ipfs', ret'.call.did)
        IN  /\ before.status = "Ok"
            /\ after.status = "Ok"
            /\ after.value = ret'.val.value
            /\ after.value.updated > before.value.updated
            /\ after.value.id = before.value.id
            /\ after.value.created = before.value.created
            /\ after.value.controller =
                   IF request.controller # None
                   THEN <<request.controller[1]>>
                   ELSE before.value.controller
            /\ after.value.metadata =
                   IF request.update_metadata # None
                   THEN Some(request.update_metadata[1])
                   ELSE before.value.metadata
            /\ request.remove_verification_method # None =>
                   \A i \in 1..Len(after.value.verification_method) :
                       ~Contains(request.remove_verification_method[1],
                                 after.value.verification_method[i].id)
            /\ request.remove_verification_method = None =>
                   after.value.verification_method =
                       before.value.verification_method
            /\ after.value.service = before.value.service
            /\ after.value.authentication = before.value.authentication
      ]_vars

\* update_did has succeeded with a patch that names a new controller, and
\* get_did shows that controller
C6_Witness ==
    /\ ReturnedOk("update_did")
    /\ ret.call.request.controller # None
    /\ LET got == get_did(did_documents, ipfs, ret.call.did)
       IN  /\ got.status = "Ok"
           /\ got.value.controller = <<ret.call.request.controller[1]>>
           /\ got.value.updated > got.value.created

-----------------------------------------------------------------------------
\* C7: no step removes a blob from the Content Store, and the step on which
\* update_did succeeds leaves the pointer row with a cid other than the one it
\* held.
C7_SnapshotsKept ==
    [][/\ ipfs \subseteq ipfs'
       /\ (ret'.proc # "none" /\ ret'.call.op = "update_did"
               /\ ret'.val.status = "Ok") =>
              \A r \in did_documents, r2 \in did_documents' :
                  (r.did = ret'.call.did /\ r2.did = ret'.call.did) =>
                      (r2.cid # r.cid /\ HasContent(ipfs', r.cid))
      ]_vars

\* update_did has succeeded with the empty patch: the store holds the
\* snapshot the row pointed to before and the one it points to now
C7_Witness ==
    /\ ReturnedOk("update_did")
    /\ ret.call.request = NoPatch
    /\ Cardinality(ipfs) >= 2
    /\ OrphanBlob

-----------------------------------------------------------------------------
\* C8: malformed tokens. verify_token of a string that does not decode never
\* hands an error to its caller.
C8_MalformedIsInvalid ==
    (Returned("verify_token") /\ ret.call.token \in MalformedTokens) =>
        ret.val.status # "Err"

-----------------------------------------------------------------------------
\* C9: for a token string that has a row, verify_token answers valid if and
\* only if that row is not revoked and the time has not passed its expires_at.
C9_ValidIffStoredLive ==
    (Returned("verify_token") /\ ret.call.token \in StoredTokens) =>
        (ret.val.status = "Ok" <=>
            \E r \in ucan_tokens :
                /\ r.token = ret.call.token
                /\ ~r.revoked
                /\ FormatSeconds(now) <= r.expires_at)

-----------------------------------------------------------------------------
\* C10: failures leave the prior state. A step changes a pointer row, a token
\* row or the document get_did returns for some identity only if it is the
\* step on which a call returns Ok; every step of a call that ends in an
\* error, or is stopped, leaves all three as they were.
C10_FailuresKeepState ==
    [][(ret'.proc = "none" \/ ret'.val.status # "Ok") =>
           /\ did_documents' = did_documents
           /\ ucan_tokens' = ucan_tokens
           /\ Documents(did_documents', ipfs') = Documents(did_documents, ipfs)
      ]_vars

\* update_did has failed at its UPDATE, after its content write, with a
\* token row and a pointer row in place
C10_Witness ==
    /\ ReturnedErr("update_did", "DatabaseError")
    /\ OrphanBlob
    /\ did_documents # {}
    /\ ucan_tokens # {}

-----------------------------------------------------------------------------
\* C11: update_did overwrites without a version check. The step on which an
\* update_did succeeds leaves get_did showing the caller's patch applied to
\* the document that caller loaded, whatever was written in between: the
\* fields its patch does not name are those of its loaded copy.
C11_LastWriteWins ==
    [][\A p \in AllProcs :
          (pc[p] = "update_write" /\ ret'.proc = p /\ ret'.val.status = "Ok") =>
          LET request == loc[p].call.request
              loaded == loc[p].loaded
              after == get_did(did_documents', ipfs', loc[p].call.did)
          IN  /\ after.status = "Ok"
              /\ after.value = ret'.val.value
              /\ after.value.controller =
                     IF request.controller # None
                     THEN <<request.controller[1]>> ELSE loaded.controller
              /\ after.value.metadata =
                     IF request.update_metadata # None
                     THEN Some(request.update_metadata[1]) ELSE loaded.metadata
              /\ after.value.verification_method =
                     IF request.remove_verification_method # None
                     THEN RetainNotIn(loaded.verification_method,
                                      request.remove_verification_method[1])
                     ELSE loaded.verification_method
      ]_vars

\* the lost update: two update_did calls of the owner have both returned Ok,
\* one with a new controller and the key still there, the other with the key
\* removed and the old controller, so each patched the document as created;
\* get_did now returns the second, without the first one's controller
C11_Witness ==
    \E p, q \in AllProcs :
        /\ p # q
        /\ results[p].proc = p /\ results[q].proc = q
        /\ results[p].call.op = "update_did" /\ results[q].call.op = "update_did"
        /\ results[p].call.did = results[q].call.did
        /\ results[p].val.status = "Ok" /\ results[q].val.status = "Ok"
        /\ LET a == results[p].val.value
               b == results[q].val.value
               got == get_did(did_documents, ipfs, results[p].call.did)
           IN  /\ a.controller # FirstDocument.controller
               /\ a.verification_method = FirstDocument.verification_method
               /\ b.controller = FirstDocument.controller
               /\ b.verification_method = <<>>
               /\ got = Ok(b)

-----------------------------------------------------------------------------
\* C12: token rows change by revocation only and are never deleted. Over every
\* step each token row is still there under its id; revoked does not go back
\* to false; revoked_at is set once revoked becomes true; no other column
\* changes; and a row differs after the step only if the step is a
\* revoke_token of that row returning Ok.
C12_TokenRowsMonotonic ==
    [][\A r \in ucan_tokens :
          \E r2 \in ucan_tokens' :
              /\ r2.id = r.id
              /\ r.revoked => r2.revoked
              /\ (~r.revoked /\ r2.revoked) => r2.revoked_at # None
              /\ [r2 EXCEPT !.revoked = r.revoked, !.revoked_at = r.revoked_at] = r
              /\ r2 # r =>
                     /\ ret'.proc # "none"
                     /\ ret'.call.op = "revoke_token"
                     /\ ret'.call.token_id = r.id
                     /\ ret'.val.status = "Ok"
      ]_vars

\* revoke_token has returned Ok: its row is revoked with revoked_at set, and
\* another row, issued or delegated before, is as it was stored
C12_Witness ==
    /\ ReturnedOk("revoke_token")
    /\ \E r, o \in ucan_tokens :
           /\ r.id = ret.call.token_id
           /\ r.revoked /\ r.revoked_at # None
           /\ o.id # r.id
           /\ ~o.revoked /\ o.revoked_at = None

-----------------------------------------------------------------------------
\* C13: revocation is idempotent. The step on which revoke_token succeeds on a
\* row that is already revoked leaves every token row, revoked_at included, as
\* it was.
C13_SecondRevokeNoOp ==
    [][\A p \in Procs :
          (/\ pc[p] = "revoke_update"
           /\ ret'.proc = p
           /\ ret'.val.status = "Ok"
           /\ \E r \in ucan_tokens : r.id = loc[p].call.token_id /\ r.revoked)
          => ucan_tokens' = ucan_tokens
      ]_vars

-----------------------------------------------------------------------------
\* C14: revoke_token called with a token id that has no row owned by the
\* caller returns at once with an error, NotFound unless the connection or
\* the statement itself failed, and no token row changes (verify_token reads
\* nothing but its argument, so its answers are the same as well).
C14_RevokeNotFound ==
    [][\A p \in Procs :
          LET call == IF ret'.proc = p THEN ret'.call ELSE loc'[p].call IN
          (/\ pc[p] = "idle"
           /\ call.op = "revoke_token"
           /\ ~ \E r \in ucan_tokens :
                    r.id = call.token_id /\ r.user_id = call.user_id)
          => /\ pc'[p] = "idle"
             /\ ret'.val.status = "Err"
             /\ ret'.val.error \in {"NotFound", "DatabaseError"}
             /\ ucan_tokens' = ucan_tokens
      ]_vars

\* revoke_token of a row that another user owns has answered NotFound
C14_Witness ==
    /\ ReturnedErr("revoke_token", "NotFound")
    /\ \E r \in ucan_tokens :
           r.id = ret.call.token_id /\ r.user_id # ret.call.user_id /\ ~r.revoked

-----------------------------------------------------------------------------
\* the string whose split on ':' is segments
RECURSIVE Join(_)
Join(segments) ==
    IF Len(segments) = 1 THEN segments[1]
    ELSE segments[1] \o ":" \o Join(Tail(segments))

\* C15: delegation records provenance. When delegate_capability has returned a
\* token made from a parent that issue_token produced, the row of the new
\* token has delegated_from equal to the parent's issuer, the service's own
\* identity; rows stored by issue_token have no delegated_from.
C15_DelegationProvenance ==
    /\ \A r \in ucan_tokens :
           r.token[4] # "delegated" => r.delegated_from = None
    /\ (/\ ReturnedOk("delegate_capability")
        /\ \E r \in ucan_tokens :
               r.token = ret.call.from_token /\ r.delegated_from = None)
       => \E d \in ucan_tokens :
              /\ d.token = ret.val.value
              /\ d.delegated_from = Some(Join(ServiceDid))

-----------------------------------------------------------------------------
\* C16: a delegated token does not depend on its parent. The step on which
\* revoke_token succeeds leaves every row other than the one revoked as it
\* was, the rows of delegated tokens among them, and verify_token still
\* accepts the token of each of those rows.
C16_DelegatedIndependent ==
    [][(ret'.proc # "none" /\ ret'.call.op = "revoke_token"
            /\ ret'.val.status = "Ok") =>
          \A d \in ucan_tokens :
              (d.delegated_from # None /\ d.id # ret'.call.token_id) =>
                  /\ d \in ucan_tokens'
                  /\ verify_token(d.token).status = "Ok"
      ]_vars

\* an issued token has been revoked while the row of a delegated token,
\* stored after it, is not revoked
C16_Witness ==
    /\ ReturnedOk("revoke_token")
    /\ \E r, d \in ucan_tokens :
           /\ r.id = ret.call.token_id
           /\ r.revoked /\ r.delegated_from = None
           /\ d.delegated_from # None /\ ~d.revoked
           /\ verify_token(d.token).status = "Ok"

-----------------------------------------------------------------------------
\* C17: delegation never increases authority. When delegate_capability has
\* returned a token, verify_token accepts the parent and the new token, and
\* every capability it reports for the new token it reports for the parent.
C17_NoAuthorityIncrease ==
    ReturnedOk("delegate_capability") =>
        LET parent == verify_token(ret.call.from_token)
            child == verify_token(ret.val.value)
        IN  /\ child.status = "Ok"
            /\ parent.status = "Ok"
            /\ \A i \in 1..Len(child.value) :
                   \E j \in 1..Len(parent.value) :
                       child.value[i] = parent.value[j]

\* delegate_capability, asked for a non-empty capability list, has returned a
\* token made from a stored parent, and has stored it
C17_Witness ==
    /\ ReturnedOk("delegate_capability")
    /\ ret.call.from_token \in StoredTokens
    /\ ret.val.value \in StoredTokens
    /\ ret.call.capabilities # <<>>

-----------------------------------------------------------------------------
\* C18: issue and validate round trip. When issue_token has returned a token,
\* verify_token accepts it and reports the capabilities the token was issued
\* with.
C18_IssueValidateRoundTrip ==
    ReturnedOk("issue_token") =>
        LET answer == verify_token(ret.val.value)
        IN  /\ answer.status = "Ok"
            /\ answer.value = UcanCapabilities(ret.call.capabilities)

-----------------------------------------------------------------------------
\* C19: every token row, stored by issue_token or by delegate_capability, has
\* expires_at later than issued_at.
C19_ExpiresAfterIssued ==
    \A r \in ucan_tokens : r.expires_at > r.issued_at

\* the table holds a row stored by issue_token and one stored by
\* delegate_capability
C19_Witness ==
    \E r, d \in ucan_tokens :
        /\ r.delegated_from = None /\ r.token[4] = "did"
        /\ d.delegated_from # None /\ d.token[4] = "delegated"

-----------------------------------------------------------------------------
\* C20: no connection leak. A request with no call in progress holds no
\* pooled connection, so the connections in use are those of the calls in
\* progress, and none when there is no such call.
C20_NoConnectionLeak ==
    /\ \A p \in AllProcs : pc[p] = "idle" => loc[p].held = 0
    /\ InUse <= Cardinality({p \in AllProcs : pc[p] # "idle"})

\* update_did has failed at a content-store step, which it reaches with its
\* first connection held: no connection is in use afterwards
C20_Witness ==
    /\ ReturnedErr("update_did", "IPFSError")
    /\ InUse = 0

-----------------------------------------------------------------------------
\* C21: the lifetime asked for is the lifetime stored. When issue_token has
\* returned a token, the row of that token has expires_at equal to issued_at
\* plus the lifetime the caller asked for, whichever it was, and to issued_at
\* plus 24 hours when the caller asked for none.  (issue_token has no
\* parameter to receive the lifetime, so its row is the same for each.)
C21_ExpiryFollowsTtl ==
    ReturnedOk("issue_token") =>
        \A expiration \in Expirations :
            \A r \in ucan_tokens :
                r.token = ret.val.value =>
                    r.expires_at = r.issued_at +
                        (IF expiration = None THEN ExpiryHours * SecondsPerHour
                         ELSE expiration[1])

-----------------------------------------------------------------------------
\* the token string has the six segments and the prefix of the token format
Decodes(token) == Len(token) >= 6 /\ token[1] = "ucan" /\ token[2] = "demo"

\* C22: delegate_capability depends on the parent decoding and on nothing else
\* about the parent. Called with a parent that does not decode it returns the
\* decode failure and stores nothing; called with a parent that decodes,
\* revoked or expired or never stored, it stores one new row and returns its
\* token, unless the connection or the INSERT itself failed.
C22_DelegateIffParentDecodes ==
    [][\A p \in Procs :
          (pc[p] = "idle" /\ ret'.proc = p
              /\ ret'.call.op = "delegate_capability") =>
          IF Decodes(ret'.call.from_token)
          THEN \/ /\ ret'.val.status = "Ok"
                  /\ \E r \in ucan_tokens' \ ucan_tokens :
                         /\ r.token = ret'.val.value
                         /\ ucan_tokens' = ucan_tokens \cup {r}
               \/ /\ ret'.val = Err("DatabaseError")
                  /\ ucan_tokens' = ucan_tokens
          ELSE /\ ret'.val = Err("AuthError")
               /\ ucan_tokens' = ucan_tokens
      ]_vars

\* delegate_capability has returned a token made from a parent whose row is
\* revoked and past its expires_at, and the new token has a row
C22_Witness ==
    /\ ReturnedOk("delegate_capability")
    /\ \E r \in ucan_tokens :
           /\ r.token = ret.call.from_token
           /\ r.revoked
           /\ FormatSeconds(now) > r.expires_at
    /\ \E d \in ucan_tokens : d.token = ret.val.value /\ ~d.revoked

-----------------------------------------------------------------------------
\* the entries of a list whose id is not among ids, in their order
RECURSIVE WithoutIds(_, _)
WithoutIds(entries, ids) ==
    IF entries = <<>> THEN <<>>
    ELSE (IF \E i \in 1..Len(ids) : ids[i] = Head(entries).id
          THEN <<>> ELSE <<Head(entries)>>)
         \o WithoutIds(Tail(entries), ids)

\* a list after a patch: the additions go after what is there, then the ids
\* listed for removal are taken out of the whole
PatchedList(existing, add, remove) ==
    LET extended == IF add = None THEN existing ELSE existing \o add[1]
    IN  IF remove = None THEN extended ELSE WithoutIds(extended, remove[1])

\* C23: what a patch does. The step on which update_did succeeds takes the
\* document get_did returned before to one whose controller is exactly the
\* given one, whose verification methods and services are the old ones with
\* the additions appended and then the ids listed for removal filtered out,
\* whose metadata is the given one; a field with no patch given is as before,
\* and so are the id and the fields a patch cannot name (updated aside).
C23_PatchSemantics ==
    [][(ret'.proc # "none" /\ ret'.call.op = "update_did"
            /\ ret'.val.status = "Ok") =>
        LET request == ret'.call.request
            before == get_did(did_documents, ipfs, ret'.call.did).value
            after == get_did(did_documents', ipfs', ret'.call.did).value
        IN  /\ after.id = before.id
            /\ after.controller =
                   IF request.controller = None THEN before.controller
                   ELSE <<request.controller[1]>>
            /\ after.verification_method =
                   PatchedList(before.verification_method,
                               request.add_verification_method,
                               request.remove_verification_method)
            /\ after.service =
                   PatchedList(before.service, request.add_service,
                               request.remove_service)
            /\ after.metadata =
                   IF request.update_metadata = None THEN before.metadata
                   ELSE Some(request.update_metadata[1])
            /\ after.context = before.context
            /\ after.also_known_as = before.also_known_as
            /\ after.authentication = before.authentication
            /\ after.assertion_method = before.assertion_method
            /\ after.created = before.created
      ]_vars

\* update_did has succeeded with a patch that adds a key and removes the id of
\* that key, on a document that already held the key from an earlier patch:
\* both copies are gone and the default key is where it was
C23_Witness ==
    /\ ReturnedOk("update_did")
    /\ ret.call.request.add_verification_method = Some(<<KeyA>>)
    /\ ret.call.request.remove_verification_method = Some(<<KeyA.id>>)
    /\ get_did(did_documents, ipfs, ret.call.did).value.verification_method
           = FirstDocument.verification_method
    /\ \E b \in ipfs :
           Deserialize(b).verification_method
               = FirstDocument.verification_method \o <<KeyA>>

-----------------------------------------------------------------------------
\* C24: authentication names verification methods only. In the document
\* get_did returns for an identity, every entry of authentication is the id
\* of one of the document's verification methods.
C24_AuthenticationNamesKeys ==
    \A d \in DIDs :
        LET got == get_did(did_documents, ipfs, d) IN
        got.status = "Ok" =>
            \A i \in 1..Len(got.value.authentication) :
                \E j \in 1..Len(got.value.verification_method) :
                    got.value.verification_method[j].id
                        = got.value.authentication[i]

-----------------------------------------------------------------------------
\* C25: updated advances on every mutation. The step on which update_did or
\* link_to_dataverse succeeds leaves the document get_did returns with an
\* updated timestamp later than the one it had, and with created as it was.
C25_UpdatedAdvances ==
    [][(/\ ret'.proc # "none"
        /\ ret'.call.op \in {"update_did", "link_to_dataverse"}
        /\ ret'.val.status = "Ok") =>
        LET before == get_did(did_documents, ipfs, ret'.call.did).value
            after == get_did(did_documents', ipfs', ret'.call.did).value
        IN  /\ after.updated > before.updated
            /\ after.created = before.created
      ]_vars

-----------------------------------------------------------------------------
\* the await points at which a call of update_did or link_to_dataverse, with
\* the connection of its ownership check still held, asks the pool for another
ConnectionWaits == {"update_get", "update_write", "link_get", "link_write"}

\* C26: the pool is never exhausted by calls that wait for it. With as many
\* calls of update_did and link_to_dataverse side by side as the pool has
\* connections, there is no state in which every call holds the connection of
\* its ownership check, waits for a further one, and the pool has none left.
C26_PoolNeverExhausted ==
    ~ /\ \A p \in AllProcs :
             pc[p] \in ConnectionWaits /\ loc[p].held >= 1
      /\ ~ConnAvailable

-----------------------------------------------------------------------------
\* C27: the id inside a token string is the id of its row. Every token row is
\* stored under the token id that is the third segment of its token string,
\* so a revoke_token given that id finds the row.
C27_TokenIdIsRowId ==
    \A r \in ucan_tokens :
        /\ r.id = <<r.token[3]>>
        /\ SelectOwnedToken(ucan_tokens, <<r.token[3]>>, r.user_id)

-----------------------------------------------------------------------------
\* C28: a token that was never issued is never valid. For a token string that
\* has no row, verify_token does not answer with capabilities and
\* has_capability does not answer true.
C28_NeverIssuedNotValid ==
    /\ (Returned("verify_token") /\ ret.call.token \notin StoredTokens) =>
           ret.val.status # "Ok"
    /\ (Returned("has_capability") /\ ret.call.token \notin StoredTokens) =>
           ret.val # Ok(TRUE)

-----------------------------------------------------------------------------
\* C29: an identity that does not exist is reported as not authorized.
\* update_did and link_to_dataverse called for an id that has no pointer row
\* return at once with an error, AuthorizationError and never NotFound unless
\* the connection or the statement itself failed, and write no blob and no
\* pointer row.
C29_UnknownIdNotAuthorized ==
    [][\A p \in Procs :
          LET call == IF ret'.proc = p THEN ret'.call ELSE loc'[p].call IN
          (/\ pc[p] = "idle"
           /\ call.op \in {"update_did", "link_to_dataverse"}
           /\ ~ \E r \in did_documents : r.did = call.did)
          => /\ pc'[p] = "idle"
             /\ ret'.val.status = "Err"
             /\ ret'.val.error \in {"AuthorizationError", "DatabaseError"}
             /\ did_documents' = did_documents
             /\ ipfs' = ipfs
      ]_vars

\* update_did of an id without a row has answered AuthorizationError while
\* another identity has its row; get_did of that id would say NotFound
C29_Witness ==
    /\ ReturnedErr("update_did", "AuthorizationError")
    /\ ~ \E r \in did_documents : r.did = ret.call.did
    /\ did_documents # {}
    /\ get_did(did_documents, ipfs, ret.call.did) = Err("NotFound")

-----------------------------------------------------------------------------
\* C30: only the owner writes. Over every step of requests of any users
\* running side by side, each pointer row stays, with its did and its user_id;
\* no did has two rows; and the cid or the dataverse_doi of a row changes only
\* on the step on which an update_did or link_to_dataverse of that did,
\* called by the user of the row, returns Ok.
C30_OnlyOwnerWrites ==
    [][/\ \A r \in did_documents :
              \E r2 \in did_documents' :
                  /\ r2.did = r.did
                  /\ r2.user_id = r.user_id
                  /\ (r2.cid # r.cid \/ r2.dataverse_doi # r.dataverse_doi) =>
                         /\ ret'.proc # "none"
                         /\ ret'.call.op \in {"update_did", "link_to_dataverse"}
                         /\ ret'.call.did = r.did
                         /\ ret'.call.user_id = r.user_id
                         /\ ret'.val.status = "Ok"
       /\ \A r1, r2 \in did_documents' : r1.did = r2.did => r1 = r2
      ]_vars

\* a call of user 2 on the identity of user 1 has been turned down, and an
\* update_did of user 1 from the other request has just succeeded: the row
\* has a new cid and is still owned by user 1
C30_Witness ==
    \E p, q \in RaceProcs :
        /\ p # q
        /\ results[p].proc = p
        /\ results[p].call.op \in {"update_did", "link_to_dataverse"}
        /\ results[p].call.did = FirstDocument.id
        /\ results[p].call.user_id = 2
        /\ results[p].val = Err("AuthorizationError")
        /\ ret.proc = q
        /\ ret.call.op = "update_did"
        /\ ret.call.did = FirstDocument.id
        /\ ret.call.user_id = 1
        /\ ret.val.status = "Ok"
        /\ \E r \in did_documents :
               /\ r.did = FirstDocument.id
               /\ r.user_id = 1
               /\ r.cid # CidOf(Serialize(FirstDocument))

====
